---- MODULE Spec2Model ----
(***************************************************************************)
(* Model of scripts/make-click-through.py: a one-shot command that sets an *)
(* empty input shape on an X11 window through the SHAPE extension.         *)
(*                                                                         *)
(* Strings are modelled as sequences of one-character strings, so that the *)
(* conversions int(s), int(s, 16) and hex(n) are computed character by     *)
(* character, as the interpreter computes them.  The X server (python-xlib)*)
(* is an external collaborator: every call to it either returns or raises, *)
(* chosen nondeterministically at the call.                                *)
(***************************************************************************)
EXTENDS Integers, Sequences, FiniteSets, TLC

VARIABLES
  pc,         \* position in the script
  argv,       \* sys.argv
  imported,   \* whether X, display and shape are bound (lines 10-12)
  window_id,  \* the argument of make_click_through
  d,          \* the display connection
  wid,        \* <<>> while unbound, <<n>> once parsed
  window,     \* <<>> while unbound, <<n>> for the window resource object of id n
  has_ext,    \* <<>> until d.has_extension('SHAPE') has returned, then <<b>>
  requests,   \* the shape requests handed to the connection, in order
  calls,      \* the steps of the try block executed so far, in order
  raised,     \* the step that raised, "none" when none did
  stdout,     \* the lines printed
  ret,        \* <<>> until make_click_through returns, then <<b>>
  exitcode    \* <<>> while running, <<n>> after sys.exit(n)

vars == <<pc, argv, imported, window_id, d, wid, window, has_ext, requests,
          calls, raised, stdout, ret, exitcode>>

\* the variables of make_click_through's frame that a step leaves alone
frame == <<argv, imported, window_id, exitcode>>

(***************************************************************************)
(* Bounds and inputs                                                       *)
(***************************************************************************)
MaxLen == 3

Alphabet == {"0", "1", "a", "F", "g", "x", "X", "-", "_", " "}

Samples ==
  { <<"1","2","3","4","5">>,
    <<"0","x","1","a","2","b">>,
    <<"0","X","1","A","2","B">>,
    <<"n","o","t","a","n","u","m","b","e","r">>,
    <<"+","1","9">>,
    <<"-","1","2","3","4","5">>,
    <<"0","x","_","f","f">>,
    <<" ","4","2"," ">> }

Inputs == UNION {[1..k -> Alphabet] : k \in 0..MaxLen} \cup Samples

ProgName == "make-click-through.py"

(***************************************************************************)
(* str.startswith, str.strip                                               *)
(***************************************************************************)
StartsWith(s, p) ==
  /\ Len(s) >= Len(p)
  /\ \A i \in 1..Len(p) : s[i] = p[i]

Whitespace == {" "}

RECURSIVE LStrip(_)
LStrip(s) ==
  IF s # <<>> /\ s[1] \in Whitespace THEN LStrip(Tail(s)) ELSE s

RECURSIVE RStrip(_)
RStrip(s) ==
  IF s # <<>> /\ s[Len(s)] \in Whitespace
    THEN RStrip(SubSeq(s, 1, Len(s) - 1))
    ELSE s

Strip(s) == RStrip(LStrip(s))

(***************************************************************************)
(* int(s) and int(s, 16): optional surrounding whitespace, optional sign,  *)
(* for base 16 an optional 0x/0X prefix (one underscore allowed after it), *)
(* then digits of the base with single underscores between digits.         *)
(***************************************************************************)
DecChars == <<"0","1","2","3","4","5","6","7","8","9">>
LowChars == <<"a","b","c","d","e","f","g","h","i","j","k","l","m",
              "n","o","p","q","r","s","t","u","v","w","x","y","z">>
UppChars == <<"A","B","C","D","E","F","G","H","I","J","K","L","M",
              "N","O","P","Q","R","S","T","U","V","W","X","Y","Z">>

IndexOf(c, t) == CHOOSE i \in 1..Len(t) : t[i] = c

DigitValue(c) ==
  IF \E i \in 1..Len(DecChars) : DecChars[i] = c THEN IndexOf(c, DecChars) - 1
  ELSE IF \E i \in 1..Len(LowChars) : LowChars[i] = c THEN IndexOf(c, LowChars) + 9
  ELSE IF \E i \in 1..Len(UppChars) : UppChars[i] = c THEN IndexOf(c, UppChars) + 9
  ELSE 37

RECURSIVE Magnitude(_, _, _)
Magnitude(s, base, acc) ==
  IF s = <<>> THEN acc
  ELSE IF s[1] = "_" THEN Magnitude(Tail(s), base, acc)
  ELSE Magnitude(Tail(s), base, acc * base + DigitValue(s[1]))

ValueError == [ok |-> FALSE, val |-> 0]

PyInt(s, base) ==
  LET t == Strip(s)
      signed == t # <<>> /\ t[1] \in {"+", "-"}
      neg == t # <<>> /\ t[1] = "-"
      u == IF signed THEN Tail(t) ELSE t
      prefixed == /\ base = 16
                  /\ Len(u) >= 2
                  /\ u[1] = "0"
                  /\ u[2] \in {"x", "X"}
      v == IF prefixed THEN SubSeq(u, 3, Len(u)) ELSE u
      w == IF prefixed /\ v # <<>> /\ v[1] = "_" THEN Tail(v) ELSE v
      valid == /\ w # <<>>
               /\ w[1] # "_"
               /\ w[Len(w)] # "_"
               /\ \A i \in 1..Len(w) : w[i] = "_" \/ DigitValue(w[i]) < base
               /\ \A i \in 1..(Len(w) - 1) : ~(w[i] = "_" /\ w[i + 1] = "_")
  IN IF valid
       THEN [ok |-> TRUE,
             val |-> IF neg THEN 0 - Magnitude(w, base, 0)
                            ELSE Magnitude(w, base, 0)]
       ELSE ValueError

\* mutants of ParseWindowId: no hexadecimal branch; base 16 for every string
ParseWindowId_NoHexBranch(s) == PyInt(s, 10)

ParseWindowId_AlwaysHex(s) == PyInt(s, 16)

\* lines 23-27: the hex branch is taken on a lower-case "0x" prefix only
ParseWindowId(s) ==
  IF StartsWith(s, <<"0", "x">>) THEN PyInt(s, 16) ELSE PyInt(s, 10)

(***************************************************************************)
(* hex(n)                                                                  *)
(***************************************************************************)
HexChars == <<"0","1","2","3","4","5","6","7","8","9","a","b","c","d","e","f">>

RECURSIVE HexDigits(_)
HexDigits(n) ==
  IF n < 16 THEN <<HexChars[n + 1]>>
  ELSE Append(HexDigits(n \div 16), HexChars[(n % 16) + 1])

Hex(n) ==
  IF n < 0 THEN <<"-", "0", "x">> \o HexDigits(0 - n)
  ELSE <<"0", "x">> \o HexDigits(n)

(***************************************************************************)
(* Output lines                                                            *)
(***************************************************************************)
Line(prefix, text, hexpart) == [prefix |-> prefix, text |-> text, hex |-> hexpart]

ImportErrorLine == Line("Error:", "python-xlib not installed", <<>>)
NoShapeLine     == Line("Error:", "X SHAPE extension not available", <<>>)
UsageLine1      == Line("Usage:", "make-click-through.py <window_id>", <<>>)
UsageLine2      == Line("  ", "window_id can be decimal or hex (0x...)", <<>>)
ErrorLine(e)    == Line("Error:", e, <<>>)
SuccessLine(n)  == Line("Window", "is now click-through", Hex(n))

(***************************************************************************)
(* The program                                                             *)
(***************************************************************************)
Init ==
  /\ pc = "import"
  /\ argv \in {<<ProgName>>} \cup {<<ProgName, s>> : s \in Inputs}
  /\ imported = FALSE
  /\ window_id = <<>>
  /\ has_ext = <<>>
  /\ d = "none"
  /\ wid = <<>>
  /\ window = <<>>
  /\ requests = <<>>
  /\ calls = <<>>
  /\ raised = "none"
  /\ stdout = <<>>
  /\ ret = <<>>
  /\ exitcode = <<>>

\* lines 10-15
Import ==
  /\ pc = "import"
  /\ \E ok \in BOOLEAN :
       IF ok
         THEN /\ imported' = TRUE
              /\ pc' = "main"
              /\ UNCHANGED <<stdout, exitcode>>
         ELSE /\ stdout' = Append(stdout, ImportErrorLine)
              /\ exitcode' = <<1>>
              /\ pc' = "exited"
              /\ UNCHANGED imported
  /\ UNCHANGED <<argv, window_id, d, wid, window, has_ext, requests, calls, raised, ret>>

\* mutant of Usage: the usage message is followed by exit code 0
Usage_ExitZero ==
  /\ pc = "main"
  /\ Len(argv) < 2
  /\ stdout' = stdout \o <<UsageLine1, UsageLine2>>
  /\ exitcode' = <<0>>
  /\ pc' = "exited"
  /\ UNCHANGED <<argv, imported, window_id, d, wid, window, has_ext, requests, calls, raised, ret>>

\* lines 59-62
Usage ==
  /\ pc = "main"
  /\ Len(argv) < 2
  /\ stdout' = stdout \o <<UsageLine1, UsageLine2>>
  /\ exitcode' = <<1>>
  /\ pc' = "exited"
  /\ UNCHANGED <<argv, imported, window_id, d, wid, window, has_ext, requests, calls, raised, ret>>

\* lines 64-65: call make_click_through(sys.argv[1])
Call ==
  /\ pc = "main"
  /\ Len(argv) >= 2
  /\ window_id' = argv[2]
  /\ pc' = "connect"
  /\ UNCHANGED <<argv, imported, d, wid, window, has_ext, requests, calls, raised, stdout, ret, exitcode>>

\* mutant of Except: the exception is swallowed without a message
Except_Silent(step, e) ==
  /\ raised' = step
  /\ stdout' = stdout
  /\ ret' = <<FALSE>>
  /\ pc' = "return"

\* lines 54-56: the handler of the try block, entered from the step that raised
Except(step, e) ==
  /\ raised' = step
  /\ stdout' = Append(stdout, ErrorLine(e))
  /\ ret' = <<FALSE>>
  /\ pc' = "return"

\* line 20
Connect ==
  /\ pc = "connect"
  /\ calls' = Append(calls, "connect")
  /\ \E ok \in BOOLEAN :
       IF ok
         THEN /\ d' = "open"
              /\ pc' = "parse"
              /\ UNCHANGED <<raised, stdout, ret>>
         ELSE /\ Except("connect", "DisplayError")
              /\ UNCHANGED d
  /\ UNCHANGED <<frame, wid, window, has_ext, requests>>

\* mutant of Parse: an identifier that does not parse falls back to handle 0
Parse_DefaultZero ==
  /\ pc = "parse"
  /\ calls' = Append(calls, "parse")
  /\ LET r == ParseWindowId(window_id)
     IN /\ wid' = <<r.val>>
        /\ pc' = "create"
        /\ UNCHANGED <<raised, stdout, ret>>
  /\ UNCHANGED <<frame, d, window, has_ext, requests>>

\* lines 23-29 (sys.argv[1] is always a str)
Parse ==
  /\ pc = "parse"
  /\ calls' = Append(calls, "parse")
  /\ LET r == ParseWindowId(window_id)
     IN IF r.ok
          THEN /\ wid' = <<r.val>>
               /\ pc' = "create"
               /\ UNCHANGED <<raised, stdout, ret>>
          ELSE /\ Except("parse", "ValueError")
               /\ UNCHANGED wid
  /\ UNCHANGED <<frame, d, window, has_ext, requests>>

\* line 31
CreateResourceObject ==
  /\ pc = "create"
  /\ calls' = Append(calls, "create_resource_object")
  /\ \E ok \in BOOLEAN :
       IF ok
         THEN /\ window' = wid
              /\ pc' = "has_extension"
              /\ UNCHANGED <<raised, stdout, ret>>
         ELSE /\ Except("create_resource_object", "XError")
              /\ UNCHANGED window
  /\ UNCHANGED <<frame, d, wid, has_ext, requests>>

\* mutant of HasExtension: the reply is printed but not acted upon
HasExtension_Unchecked ==
  /\ pc = "has_extension"
  /\ calls' = Append(calls, "has_extension")
  /\ \E r \in {"true", "false", "raise"} :
       CASE r = "true"  -> /\ has_ext' = <<TRUE>>
                           /\ pc' = "shape"
                           /\ UNCHANGED <<raised, stdout, ret>>
         [] r = "false" -> /\ has_ext' = <<FALSE>>
                           /\ stdout' = Append(stdout, NoShapeLine)
                           /\ pc' = "shape"
                           /\ UNCHANGED <<raised, ret>>
         [] r = "raise" -> /\ Except("has_extension", "XError")
                           /\ UNCHANGED has_ext
  /\ UNCHANGED <<frame, d, wid, window, requests>>

\* lines 34-36
HasExtension ==
  /\ pc = "has_extension"
  /\ calls' = Append(calls, "has_extension")
  /\ \E r \in {"true", "false", "raise"} :
       CASE r = "true"  -> /\ has_ext' = <<TRUE>>
                           /\ pc' = "shape"
                           /\ UNCHANGED <<raised, stdout, ret>>
         [] r = "false" -> /\ has_ext' = <<FALSE>>
                           /\ stdout' = Append(stdout, NoShapeLine)
                           /\ ret' = <<FALSE>>
                           /\ pc' = "return"
                           /\ UNCHANGED raised
         [] r = "raise" -> /\ Except("has_extension", "XError")
                           /\ UNCHANGED has_ext
  /\ UNCHANGED <<frame, d, wid, window, requests>>

\* mutant of ShapeRequest: the bounding shape is set instead of the input shape
ShapeRequest_Bounding(w) ==
  [target |-> w, op |-> "SO_Set", kind |-> "SK_Bounding", ordering |-> "YXBanded",
   x |-> 0, y |-> 0, rectangles |-> <<>>]

\* the arguments of lines 42-48
ShapeRequest(w) ==
  [target |-> w, op |-> "SO_Set", kind |-> "SK_Input", ordering |-> "YXBanded",
   x |-> 0, y |-> 0, rectangles |-> <<>>]

\* mutant of ShapeRectangles: the request is handed over before the call raises
ShapeRectangles_SendThenRaise ==
  /\ pc = "shape"
  /\ calls' = Append(calls, "shape_rectangles")
  /\ requests' = Append(requests, ShapeRequest(window[1]))
  /\ \E ok \in BOOLEAN :
       IF ok
         THEN /\ pc' = "sync"
              /\ UNCHANGED <<raised, stdout, ret>>
         ELSE Except("shape_rectangles", "XError")
  /\ UNCHANGED <<frame, d, wid, window, has_ext>>

\* mutant of ShapeRectangles: success is reported without the sync
ShapeRectangles_NoSync ==
  /\ pc = "shape"
  /\ calls' = Append(calls, "shape_rectangles")
  /\ \E ok \in BOOLEAN :
       IF ok
         THEN /\ requests' = Append(requests, ShapeRequest(window[1]))
              /\ pc' = "report"
              /\ UNCHANGED <<raised, stdout, ret>>
         ELSE /\ Except("shape_rectangles", "XError")
              /\ UNCHANGED requests
  /\ UNCHANGED <<frame, d, wid, window, has_ext>>

\* lines 42-48
ShapeRectangles ==
  /\ pc = "shape"
  /\ calls' = Append(calls, "shape_rectangles")
  /\ \E ok \in BOOLEAN :
       IF ok
         THEN /\ requests' = Append(requests, ShapeRequest(window[1]))
              /\ pc' = "sync"
              /\ UNCHANGED <<raised, stdout, ret>>
         ELSE /\ Except("shape_rectangles", "XError")
              /\ UNCHANGED requests
  /\ UNCHANGED <<frame, d, wid, window, has_ext>>

\* line 50
Sync ==
  /\ pc = "sync"
  /\ calls' = Append(calls, "sync")
  /\ \E ok \in BOOLEAN :
       IF ok
         THEN /\ pc' = "report"
              /\ UNCHANGED <<raised, stdout, ret>>
         ELSE Except("sync", "XError")
  /\ UNCHANGED <<frame, d, wid, window, has_ext, requests>>

\* lines 51-52
Report ==
  /\ pc = "report"
  /\ calls' = Append(calls, "print")
  /\ stdout' = Append(stdout, SuccessLine(wid[1]))
  /\ ret' = <<TRUE>>
  /\ pc' = "return"
  /\ UNCHANGED <<frame, d, wid, window, has_ext, requests, raised>>

\* mutant of Exit: the return value is ignored
Exit_AlwaysZero ==
  /\ pc = "return"
  /\ exitcode' = <<0>>
  /\ pc' = "exited"
  /\ UNCHANGED <<argv, imported, window_id, d, wid, window, has_ext, requests, calls, raised, stdout, ret>>

\* lines 65-68
Exit ==
  /\ pc = "return"
  /\ exitcode' = IF ret[1] THEN <<0>> ELSE <<1>>
  /\ pc' = "exited"
  /\ UNCHANGED <<argv, imported, window_id, d, wid, window, has_ext, requests, calls, raised, stdout, ret>>

Next ==
  \/ Import
  \/ Usage
  \/ Call
  \/ Connect
  \/ Parse
  \/ CreateResourceObject
  \/ HasExtension
  \/ ShapeRectangles
  \/ Sync
  \/ Report
  \/ Exit

Spec == Init /\ [][Next]_vars

(***************************************************************************)
(* Vocabulary of the properties: the standard reading of numerals, stated  *)
(* independently of the interpreter's conversion above, and the history of *)
(* a run.                                                                  *)
(***************************************************************************)
DecDigitSet == {"0","1","2","3","4","5","6","7","8","9"}
HexDigitSet == DecDigitSet \cup {"a","b","c","d","e","f","A","B","C","D","E","F"}
Lenient     == {"+", "-", "_", " "}

StdDigit(c) ==
  CASE c = "0" -> 0 [] c = "1" -> 1 [] c = "2" -> 2 [] c = "3" -> 3
    [] c = "4" -> 4 [] c = "5" -> 5 [] c = "6" -> 6 [] c = "7" -> 7
    [] c = "8" -> 8 [] c = "9" -> 9
    [] c \in {"a", "A"} -> 10 [] c \in {"b", "B"} -> 11
    [] c \in {"c", "C"} -> 12 [] c \in {"d", "D"} -> 13
    [] c \in {"e", "E"} -> 14 [] c \in {"f", "F"} -> 15

RECURSIVE StdValue(_, _)
StdValue(s, base) ==
  IF s = <<>> THEN 0
  ELSE StdValue(SubSeq(s, 1, Len(s) - 1), base) * base + StdDigit(s[Len(s)])

IsDecimal(s) == s # <<>> /\ \A i \in 1..Len(s) : s[i] \in DecDigitSet

IsPrefixedHex(s, x) ==
  /\ Len(s) >= 3
  /\ s[1] = "0"
  /\ s[2] = x
  /\ \A i \in 3..Len(s) : s[i] \in HexDigitSet

AfterPrefix(s) == SubSeq(s, 3, Len(s))

\* empty, or holding a character that is no digit of the base the prefix
\* selects (nor a sign, an underscore or a blank)
EmptyOrNonNumeric(s) ==
  \/ s = <<>>
  \/ IF Len(s) >= 2 /\ s[1] = "0" /\ s[2] = "x"
       THEN \E i \in 3..Len(s) : s[i] \notin HexDigitSet \cup Lenient
       ELSE \E i \in 1..Len(s) : s[i] \notin DecDigitSet \cup Lenient

\* malformed in the grammar of the specification: neither a decimal numeral
\* nor a 0x/0X-prefixed hexadecimal one
Malformed(s) ==
  ~(IsDecimal(s) \/ IsPrefixedHex(s, "x") \/ IsPrefixedHex(s, "X"))

Called(step) == \E i \in 1..Len(calls) : calls[i] = step
Count(step)  == Cardinality({i \in 1..Len(calls) : calls[i] = step})
At(step)     == CHOOSE i \in 1..Len(calls) : calls[i] = step
Before(a, b) == Called(b) => (Called(a) /\ At(a) < At(b))

HasArg  == Len(argv) >= 2
Arg     == argv[2]
Exited  == pc = "exited"
ExitIs(n) == Exited /\ exitcode = <<n>>
ErrorLines == {i \in 1..Len(stdout) : stdout[i].prefix = "Error:"}
LastLine == stdout[Len(stdout)]

Sample12345 == <<"1","2","3","4","5">>
Sample0x1a2b == <<"0","x","1","a","2","b">>

(***************************************************************************)
(* C1                                                                      *)
(***************************************************************************)
\* C1: a shape request is issued only after has_extension('SHAPE') returned
\* true in the same run; when it returns false the run prints the capability
\* error, returns False (exit code 1) and sends no shape request.
C1_ShapeOnlyWithExtension ==
  /\ (Called("shape_rectangles") \/ requests # <<>>) =>
       /\ has_ext = <<TRUE>>
       /\ Before("has_extension", "shape_rectangles")
  /\ has_ext = <<FALSE>> =>
       /\ pc \in {"return", "exited"}
       /\ LastLine = NoShapeLine
       /\ ret = <<FALSE>>
       /\ ~Called("shape_rectangles")
       /\ requests = <<>>
       /\ Exited => exitcode = <<1>>

C1_Witness == ExitIs(1) /\ has_ext = <<FALSE>> /\ requests = <<>>

(***************************************************************************)
(* C2                                                                      *)
(***************************************************************************)
\* C2 as claimed: a malformed identifier ends in a parse error and exit code
\* 1 without a connection ever being attempted.
C2_AsClaimed ==
  (HasArg /\ Malformed(Arg) /\ Exited) =>
    /\ exitcode = <<1>>
    /\ ~Called("connect")

\* C2 as amended: the connection is attempted before the identifier is
\* parsed.  For every empty or non-numeric identifier the run exits with code
\* 1 and never reaches the window reference, the capability query, the shape
\* request or the sync; the parse error is what is reported whenever the
\* import and the connection succeeded, and the parse step is then preceded
\* by the connect step.
C2_MalformedFailsAfterConnect ==
  /\ (HasArg /\ EmptyOrNonNumeric(Arg)) =>
       /\ Called("parse") => raised = "parse"
       /\ \A st \in {"create_resource_object", "has_extension",
                     "shape_rectangles", "sync", "print"} : ~Called(st)
       /\ requests = <<>>
       /\ Exited => exitcode = <<1>>
       /\ (Exited /\ d = "open") => raised = "parse"
  /\ raised = "parse" =>
       /\ calls = <<"connect", "parse">>
       /\ d = "open"
       /\ LastLine = ErrorLine("ValueError")
       /\ wid = <<>>

C2_Witness ==
  /\ ExitIs(1)
  /\ window_id = <<"n","o","t","a","n","u","m","b","e","r">>
  /\ raised = "parse"
  /\ Called("connect")

(***************************************************************************)
(* C3                                                                      *)
(***************************************************************************)
\* C3 as claimed: a 0x or 0X prefix followed by hexadecimal digits is
\* accepted and parsed to the base-16 value of the digits after the prefix.
C3_AsClaimed ==
  (HasArg /\ Called("parse")
     /\ (IsPrefixedHex(Arg, "x") \/ IsPrefixedHex(Arg, "X"))) =>
    /\ raised # "parse"
    /\ wid = <<StdValue(AfterPrefix(Arg), 16)>>

\* C3 as amended: a lower-case 0x prefix followed by one or more hexadecimal
\* digits is accepted and parsed to the base-16 value of the digits after
\* the prefix ("0x1a2b" yields 6699); an upper-case 0X prefix is not
\* recognised and the identifier is rejected with a parse error.
C3_LowerCasePrefixOnly ==
  /\ (HasArg /\ Called("parse") /\ IsPrefixedHex(Arg, "x")) =>
       /\ raised # "parse"
       /\ wid = <<StdValue(AfterPrefix(Arg), 16)>>
  /\ (HasArg /\ Called("parse") /\ Arg = Sample0x1a2b) => wid = <<6699>>
  /\ (HasArg /\ Called("parse") /\ IsPrefixedHex(Arg, "X")) =>
       /\ raised = "parse"
       /\ wid = <<>>

C3_Witness == window_id = Sample0x1a2b /\ wid = <<6699>> /\ window = <<6699>>

(***************************************************************************)
(* C4                                                                      *)
(***************************************************************************)
\* C4: in every run that exits with code 0 exactly one shape request was
\* sent, with kind input, operation set, no rectangles, offset (0,0),
\* banded ordering and the parsed handle as target, and the connection was
\* synchronized exactly once, after that request.
C4_OneRequestOneSync ==
  ExitIs(0) =>
    /\ requests = << [target |-> wid[1], op |-> "SO_Set", kind |-> "SK_Input",
                      ordering |-> "YXBanded", x |-> 0, y |-> 0,
                      rectangles |-> <<>>] >>
    /\ wid = <<ParseWindowId(Arg).val>>
    /\ Count("shape_rectangles") = 1
    /\ Count("sync") = 1
    /\ At("shape_rectangles") < At("sync")

C4_Witness == ExitIs(0) /\ Arg = Sample12345 /\ Len(requests) = 1

(***************************************************************************)
(* C5                                                                      *)
(***************************************************************************)
\* C5 as claimed: in every run that ends with exit code 1, a failure of the
\* sync step included, no shape request has been sent.
C5_AsClaimed == ExitIs(1) => requests = <<>>

\* C5 as amended: in every run that ends with exit code 1 because of a
\* missing binding or argument, a parse failure, a connection failure, an
\* unavailable capability or a failure of the shape request itself, no shape
\* request has been sent; a run in which the sync step fails ends with exit
\* code 1 after its one shape request was issued.
C5_NoRequestUnlessSyncFailed ==
  /\ (ExitIs(1) /\ raised # "sync") => requests = <<>>
  /\ (ExitIs(1) /\ raised = "sync") => Len(requests) = 1

C5_Witness == ExitIs(1) /\ raised = "shape_rectangles" /\ requests = <<>>

(***************************************************************************)
(* C6                                                                      *)
(***************************************************************************)
\* the magnitude and sign read back from a "0x..." / "-0x..." numeral
HexReadsAs(h, n) ==
  LET neg  == h # <<>> /\ h[1] = "-"
      body == IF neg THEN Tail(h) ELSE h
  IN /\ IsPrefixedHex(body, "x")
     /\ neg <=> n < 0
     /\ StdValue(AfterPrefix(body), 16) = (IF n < 0 THEN 0 - n ELSE n)

\* C6: the program exits with code 0 exactly when the shape request was
\* issued and the sync returned without error, and then the last line printed
\* is the confirmation holding the parsed handle in hexadecimal (0x3039 for
\* "12345"); every other run exits with code 1.
C6_ExitCode ==
  Exited =>
    /\ exitcode \in {<<0>>, <<1>>}
    /\ exitcode = <<0>> <=>
         (requests # <<>> /\ Called("sync") /\ raised # "sync")
    /\ exitcode = <<0>> =>
         /\ LastLine.prefix = "Window"
         /\ LastLine.text = "is now click-through"
         /\ HexReadsAs(LastLine.hex, wid[1])
         /\ Arg = Sample12345 => LastLine.hex = <<"0","x","3","0","3","9">>

C6_Witness ==
  /\ ExitIs(0)
  /\ Arg = Sample12345
  /\ LastLine.hex = <<"0","x","3","0","3","9">>

(***************************************************************************)
(* C7                                                                      *)
(***************************************************************************)
\* C7 as claimed: invoked without a window_id argument the program prints
\* the two usage lines, exits with code 1 and performs no step of the
\* operation.
C7_AsClaimed ==
  (~HasArg /\ Exited) =>
    /\ stdout = <<UsageLine1, UsageLine2>>
    /\ exitcode = <<1>>
    /\ calls = <<>>
    /\ requests = <<>>

\* C7 as amended: invoked without a window_id argument the program exits
\* with code 1 and performs no step of the operation (no connection, no
\* capability query, no shape request); it prints the two usage lines when
\* the Xlib binding was imported, and the one-line import error otherwise.
C7_UsageWhenImported ==
  (~HasArg /\ Exited) =>
    /\ exitcode = <<1>>
    /\ calls = <<>>
    /\ d = "none"
    /\ has_ext = <<>>
    /\ requests = <<>>
    /\ imported => stdout = <<UsageLine1, UsageLine2>>
    /\ ~imported => stdout = <<ImportErrorLine>>

C7_Witness ==
  ~HasArg /\ imported /\ ExitIs(1) /\ stdout = <<UsageLine1, UsageLine2>>

(***************************************************************************)
(* C8                                                                      *)
(***************************************************************************)
Failed == raised # "none" \/ has_ext = <<FALSE>>

\* C8: a failure at any step of the operation is handled once: exactly one
\* line prefixed "Error:" is printed, the operation returns False and the
\* program exits with code 1; the failing step is the last step executed and
\* no step is executed twice.
C8_FailStop ==
  /\ \A st \in {"connect", "parse", "create_resource_object", "has_extension",
                "shape_rectangles", "sync", "print"} : Count(st) <= 1
  /\ Failed =>
       /\ pc \in {"return", "exited"}
       /\ Cardinality(ErrorLines) = 1
       /\ LastLine.prefix = "Error:"
       /\ ret = <<FALSE>>
       /\ Exited => exitcode = <<1>>
  /\ raised # "none" => calls[Len(calls)] = raised
  /\ has_ext = <<FALSE>> => calls[Len(calls)] = "has_extension"

C8_Witness == ExitIs(1) /\ raised = "sync" /\ Cardinality(ErrorLines) = 1

(***************************************************************************)
(* C9                                                                      *)
(***************************************************************************)
\* C9 as claimed: a parsed handle is never negative, neither when bound nor
\* at the window reference or the shape request.
C9_AsClaimed ==
  /\ wid # <<>> => wid[1] >= 0
  /\ window # <<>> => window[1] >= 0
  /\ \A i \in 1..Len(requests) : requests[i].target >= 0

\* C9 as amended: every decimal digit string is accepted and parsed to its
\* base-10 value ("12345" yields 12345), which is non-negative; a minus sign
\* followed by decimal digits is accepted too and parsed to the negated
\* value, and that negative handle is the one given to the window reference
\* and the shape request; a handle is negative only when the identifier
\* holds a minus sign.
C9_DecimalValueSigned ==
  /\ (HasArg /\ Called("parse") /\ IsDecimal(Arg)) =>
       /\ wid = <<StdValue(Arg, 10)>>
       /\ wid[1] >= 0
  /\ (HasArg /\ Called("parse") /\ Arg = Sample12345) => wid = <<12345>>
  /\ (HasArg /\ Called("parse") /\ Arg # <<>> /\ Arg[1] = "-"
        /\ IsDecimal(Tail(Arg))) =>
       wid = <<0 - StdValue(Tail(Arg), 10)>>
  /\ (wid # <<>> /\ wid[1] < 0) => \E i \in 1..Len(Arg) : Arg[i] = "-"
  /\ window # <<>> => window = wid
  /\ \A i \in 1..Len(requests) : requests[i].target = wid[1]

C9_Witness ==
  /\ window_id = <<"-","1","2","3","4","5">>
  /\ wid = <<0 - 12345>>
  /\ window = <<0 - 12345>>
  /\ Called("shape_rectangles")

(***************************************************************************)
(* C10                                                                     *)
(***************************************************************************)
Confirmed == \E i \in 1..Len(stdout) : stdout[i].prefix = "Window"

\* C10: the confirmation is printed, and True returned, only after the sync
\* that follows the shape request has returned; the steps executed occur in
\* the order connect, capability query, shape request, sync, report.
C10_ReportAfterSync ==
  /\ (Confirmed \/ ret = <<TRUE>>) =>
       /\ Called("sync")
       /\ raised = "none"
       /\ Called("print")
       /\ At("shape_rectangles") < At("sync")
       /\ At("sync") < At("print")
  /\ ret = <<TRUE>> => Confirmed
  /\ Before("connect", "has_extension")
  /\ Before("has_extension", "shape_rectangles")
  /\ Before("shape_rectangles", "sync")
  /\ Before("sync", "print")

C10_Witness == ExitIs(0) /\ Confirmed /\ Len(calls) = 7

====
